---- MODULE Spec2Model ----
(***************************************************************************)
(* Run orchestration of the MCP test backend: the Celery task              *)
(* run_mcp_tests_task (backend/app/tasks.py), the service it drives        *)
(* (backend/app/services/proxmox_service.py) and the cancel endpoint       *)
(* (backend/app/api/endpoints/test_runs.py), acting on one TestRun row     *)
(* through separate SQLAlchemy sessions.                                   *)
(*                                                                         *)
(* Spec is the run as the application drives it: one delivery of the task, *)
(* with cancel requests racing it.  RedeliverySpec delivers the task for   *)
(* the same run more than once.  ServiceSpec drives the service alone, the *)
(* way backend/tests/services/test_proxmox_service.py does: any test       *)
(* function outcome, any registry, any payload length.  ConcurrentSpec     *)
(* runs two task executions for two runs at once, each with its own        *)
(* session and registry, on one table of CaseResults.                      *)
(*                                                                         *)
(* Time is counted in ticks of 1/TicksPerSecond second, so that the        *)
(* int(... .total_seconds()) truncation of the code is modelled.           *)
(* Optional columns hold <<>> (NULL / None) or <<v>>.                       *)
(***************************************************************************)
EXTENDS Integers, Sequences, FiniteSets, TLC

\* ------------------------------------------------------------------ bounds
MaxTime == 2
MaxCancels == 2
TicksPerSecond == 2
MaxDeliveries == 2
MaxCalls == 2
MaxRegistry == 2

\* --------------------------------------------------------------- constants
None == <<>>
Some(v) == <<v>>
IsSet(x) == x # None
Val(x) == x[1]

TaskId == "celery-task-1"

\* the id of the TestRun row, and an id no row has
RunId == "test_run.id"
UnknownRunId == "no such id"

\* proxmox_service.py:235 -- [:1500]
DataCap == 1500

TerminalStatuses == {"completed", "failed", "cancelled"}
RunColumns == {"status", "overall_status", "start_time", "end_time",
               "duration_seconds", "celery_task_id"}

cat_rd == "Resource Discovery"
cat_vm == "VM Management"
cat_snap == "Snapshot Management"
cat_storage == "Storage Management"
cat_cleanup == "Cleanup"

SelectableTests == {"List Resources", "Create VM", "Get VM Status",
                    "Create Snapshot", "List Snapshots", "List Storage"}

VARIABLES
    run,        \* the persisted test_runs row
    results,    \* the persisted test_case_results rows of the run, in insertion order
    config,     \* the TestConfiguration of the run (and what is wrong with it)
    test_run_id,    \* the argument the task is called with
    payload_len,    \* characters in what the test functions return or raise
    deliveries, \* how many times the task has been delivered for this run
    now,        \* wall clock at its latest reading, in ticks
    t_pc,       \* trigger_test_run: "submitted" (row committed, task sent) or "done"
    wpc,        \* position of run_mcp_tests_task
    w_loaded,   \* the row as the task's query read it (tasks.py:23)
    w_obj,      \* attribute values of the task's ORM object test_run
    final_status,   \* the dict the task returns: its "status" key, or "unset"
    final_message,  \* the "message" key of that dict, if it has one
    session_closes, \* how many times this execution of the task closed its session
    w_raised,   \* an exception is propagating out of the task
    proxmox_api,    \* "unset" before the service exists, "mock" connected, "none" failed
    created_resources_for_cleanup,  \* registry of the service
    cleanup_iter,   \* what is left of reversed(created_resources_for_cleanup)
    invoked,    \* test functions (thunks) called so far by this service, in order
    in_flight,  \* the test function being awaited (line 228), or None
    tc_returned,    \* what the last _execute_test_case call returned
    thunk_outcome,  \* how the last test function awaited ended, "not_called" if none was
    logs_len,   \* characters in the logs of the CaseResult _execute_test_case stored last
    c_pc,       \* cancel_test_run: "idle" or "loaded"
    c_obj,      \* the row as the cancel handler's query read it
    cancel_requests,    \* how many cancel requests the client sends for this run
    cancels,    \* cancel requests made so far
    c_response, \* HTTP status of the last finished cancel request (0 = none yet)
    revoked,    \* task ids passed to celery control.revoke, in order
    test_runs,  \* two runs executed at once: their rows, by id
    test_case_results,  \* ... the test_case_results table, in insertion order
    tasks,      \* ... the two executions of the task: position, argument, loop
    sessions,   \* ... the objects added to each session and not yet committed
    registries  \* ... the created_resources_for_cleanup list of each service

vars == <<run, results, config, test_run_id, payload_len, deliveries, now, t_pc, wpc,
          w_loaded, w_obj, final_status, final_message, session_closes, w_raised,
          proxmox_api, created_resources_for_cleanup, cleanup_iter, invoked,
          in_flight, tc_returned, thunk_outcome, logs_len, c_pc, c_obj,
          cancel_requests, cancels, c_response, revoked, test_runs,
          test_case_results, tasks, sessions, registries>>

givenVars == <<config, test_run_id, payload_len>>
returnVars == <<final_status, final_message, session_closes>>
workerVars == <<wpc, w_loaded, w_obj, returnVars, w_raised>>
serviceVars == <<proxmox_api, created_resources_for_cleanup, cleanup_iter, invoked,
                 in_flight, tc_returned, thunk_outcome, logs_len>>
concurrentVars == <<test_runs, test_case_results, tasks, sessions, registries>>
cancelVars == <<c_pc, c_obj, cancel_requests, cancels, c_response, revoked>>

\* ------------------------------------------------------------ pure helpers
Range(seq) == {seq[i] : i \in DOMAIN seq}

Reverse(s) == [i \in 1..Len(s) |-> s[Len(s) + 1 - i]]

\* int(timedelta.total_seconds()): truncation toward zero
IntSeconds(ticks) ==
    IF ticks >= 0 THEN ticks \div TicksPerSecond
                  ELSE -((-ticks) \div TicksPerSecond)

\* a session commit: UPDATE of the dirty columns only
CommitRow(row, obj, cols) ==
    [c \in RunColumns |-> IF c \in cols THEN obj[c] ELSE row[c]]

\* the unit of work writes a column of a loaded object only when the value changed
ChangedColumns(loaded, obj) == {c \in RunColumns : obj[c] # loaded[c]}

NewRun ==
    [status |-> "queued", overall_status |-> None, start_time |-> None,
     end_time |-> None, duration_seconds |-> None, celery_task_id |-> None]

CaseResult(category, test_name, status, duration, message, logs) ==
    [category |-> category, test_name |-> test_name, status |-> status,
     duration_seconds |-> duration, message |-> message, logs |-> logs]

Configs ==
    [selected : SUBSET SelectableTests,
     enable_destructive_tests : BOOLEAN,
     cleanup_resources : BOOLEAN,
     fault : {"none"}]
    \cup
    [selected : {{}, {"List Resources"}},
     enable_destructive_tests : {FALSE},
     cleanup_resources : {TRUE},
     fault : {"no_config", "no_profile", "bad_selection"}]

\* the configurations under which cancel requests are interleaved with the
\* task: nothing selected, or a VM and its snapshot created (and skipped when
\* destructive tests are off), and each way the orchestration can fault
RaceConfigs ==
    {c \in Configs : /\ c.selected \in {{}, {"Create VM", "Create Snapshot"}}
                     /\ c.cleanup_resources}

\* a run just triggered, and no code of the task or of the service entered
InitRun ==
    /\ run = NewRun
    /\ results = <<>>
    /\ deliveries = 1
    /\ now = 0
    /\ t_pc = "submitted"
    /\ w_loaded = NewRun
    /\ w_obj = NewRun
    /\ final_status = "unset"
    /\ final_message = None
    /\ session_closes = 0
    /\ w_raised = FALSE
    /\ cleanup_iter = <<>>
    /\ invoked = <<>>
    /\ in_flight = None
    /\ tc_returned = FALSE
    /\ thunk_outcome = "not_called"
    /\ logs_len = 0
    /\ c_pc = "idle"
    /\ c_obj = NewRun
    /\ cancels = 0
    /\ c_response = 0
    /\ revoked = <<>>

\* two executions of the task on independent workers, each for a run of its own
TaskExecutions == {"worker A", "worker B"}

\* trigger_test_run (test_runs.py:31-45) sends each task the id of its row
ArgumentOf(w) == IF w = "worker A" THEN "run A" ELSE "run B"

ConcurrentRunIds == {ArgumentOf(w) : w \in TaskExecutions}

\* two runs just triggered, neither task delivered yet
ConcurrentIdle ==
    /\ test_runs = [id \in ConcurrentRunIds |->
                      [status |-> "queued", overall_status |-> None]]
    /\ test_case_results = <<>>
    /\ tasks = [w \in TaskExecutions |->
                  [pc |-> "idle", test_run_id |-> ArgumentOf(w),
                   uncommitted |-> FALSE, cleanup_iter |-> <<>>]]
    /\ sessions = [w \in TaskExecutions |-> <<>>]
    /\ registries = [w \in TaskExecutions |-> <<>>]

\* the task not yet delivered, no service constructed
InitWorker ==
    /\ wpc = "idle"
    /\ proxmox_api = "unset"
    /\ created_resources_for_cleanup = <<>>

\* what the task is called with: trigger_test_run passes the id of the row it
\* has committed (test_runs.py:31-45); the beat schedule passes the id of a
\* TestConfiguration (celery_app.py:70), which need not be the id of any run
TaskArguments == {RunId, UnknownRunId}

Init ==
    /\ InitRun
    /\ InitWorker
    /\ ConcurrentIdle
    /\ payload_len = DataCap
    /\ \/ config \in Configs /\ cancel_requests = 0 /\ test_run_id \in TaskArguments
       \/ config \in RaceConfigs /\ cancel_requests = MaxCancels /\ test_run_id = RunId

\* ------------------------------------------------------------------- clock
\* datetime.now(timezone.utc): a reading not earlier than the previous one
ClockReadings == now..MaxTime

\* ----------------------------------------------------------------- trigger
\* trigger_test_run after apply_async: store the task id and commit
TriggerStoreTaskId ==
    /\ t_pc = "submitted"
    /\ t_pc' = "done"
    /\ run' = [run EXCEPT !.celery_task_id = Some(TaskId)]
    /\ UNCHANGED <<results, givenVars, concurrentVars, deliveries, now, workerVars,
                   serviceVars, cancelVars>>

\* ------------------------------------------------------------------ cancel
\* a check that also lets a completed run through
Cancellable_Mutant(status) == status \in {"pending", "queued", "running", "completed"}

\* test_runs.py:200 -- the states in which a run may be cancelled
Cancellable(status) == status \in {"pending", "queued", "running"}

\* a cancel that writes a verdict of its own
CancelWrites_Mutant(obj, t) ==
    LET o1 == [obj EXCEPT !.status = "cancelled",
                          !.overall_status = Some("fail")]
        o2 == IF ~IsSet(o1.end_time) THEN [o1 EXCEPT !.end_time = Some(t)] ELSE o1
    IN  IF IsSet(o2.start_time) /\ IsSet(o2.end_time)
        THEN [o2 EXCEPT !.duration_seconds =
                  Some(IntSeconds(Val(o2.end_time) - Val(o2.start_time)))]
        ELSE o2

\* test_runs.py:210-215 -- the assignments of an accepted cancel, made at time t
CancelWrites(obj, t) ==
    LET o1 == [obj EXCEPT !.status = "cancelled",
                          !.overall_status = Some("cancelled")]
        o2 == IF ~IsSet(o1.end_time) THEN [o1 EXCEPT !.end_time = Some(t)] ELSE o1
    IN  IF IsSet(o2.start_time) /\ IsSet(o2.end_time)
        THEN [o2 EXCEPT !.duration_seconds =
                  Some(IntSeconds(Val(o2.end_time) - Val(o2.start_time)))]
        ELSE o2

\* cancel_test_run up to the status check: query the run, reject with 400
CancelLoad ==
    /\ c_pc = "idle"
    /\ cancels < cancel_requests
    /\ cancels' = cancels + 1
    /\ IF Cancellable(run.status)
       THEN /\ c_pc' = "loaded"
            /\ c_obj' = run
            /\ c_response' = c_response
       ELSE /\ c_pc' = "idle"
            /\ c_obj' = NewRun
            /\ c_response' = 400
    /\ UNCHANGED <<run, results, givenVars, concurrentVars, deliveries, now, t_pc,
                   workerVars, serviceVars, cancel_requests, revoked>>

\* a cancel that notifies the worker whether or not it read a task id
CancelCommit_Mutant ==
    /\ c_pc = "loaded"
    /\ revoked' = Append(revoked, TaskId)
    /\ \E t \in ClockReadings :
          /\ now' = t
          /\ LET obj == CancelWrites(c_obj, t)
             IN  run' = CommitRow(run, obj, ChangedColumns(c_obj, obj))
    /\ c_response' = 200
    /\ c_pc' = "idle"
    /\ c_obj' = NewRun
    /\ UNCHANGED <<results, givenVars, concurrentVars, deliveries, t_pc, workerVars,
                   serviceVars, cancel_requests, cancels>>

\* cancel_test_run after the check: revoke, assign, commit, answer 200
CancelCommit ==
    /\ c_pc = "loaded"
    /\ revoked' = IF IsSet(c_obj.celery_task_id)
                  THEN Append(revoked, Val(c_obj.celery_task_id))
                  ELSE revoked
    /\ \E t \in ClockReadings :
          /\ now' = t
          /\ LET obj == CancelWrites(c_obj, t)
             IN  run' = CommitRow(run, obj, ChangedColumns(c_obj, obj))
    /\ c_response' = 200
    /\ c_pc' = "idle"
    /\ c_obj' = NewRun
    /\ UNCHANGED <<results, givenVars, concurrentVars, deliveries, t_pc, workerVars,
                   serviceVars, cancel_requests, cancels>>

\* ------------------------------------------------------------------ worker
\* a finally block that forgets end_time and the duration
FinallyWrites_Mutant(obj, t) == obj

\* tasks.py:108-111 -- end_time and duration, only when start_time is set
FinallyWrites(obj, t) ==
    IF IsSet(obj.start_time)
    THEN [obj EXCEPT !.end_time = Some(t),
                     !.duration_seconds = Some(IntSeconds(t - Val(obj.start_time)))]
    ELSE obj

\* a finally block whose assignments never reach the row
FinallyColumns_Mutant(obj) == {}

\* the columns the finally block assigns
FinallyColumns(obj) ==
    IF IsSet(obj.start_time) THEN {"end_time", "duration_seconds"} ELSE {}

\* tasks.py:107-114 -- the finally block: assign, commit the columns assigned
\* since the last commit (dirty), close
Finally(obj, dirty) ==
    /\ \E t \in ClockReadings :
          /\ now' = IF IsSet(obj.start_time) THEN t ELSE now
          /\ w_obj' = FinallyWrites(obj, t)
          /\ run' = CommitRow(run, w_obj', dirty \cup FinallyColumns(obj))
    /\ session_closes' = session_closes + 1

\* tasks.py:107-114 when test_run is None: nothing to assign, an empty commit,
\* close
FinallyWithoutRun ==
    /\ session_closes' = session_closes + 1
    /\ UNCHANGED <<run, now, w_obj>>

\* a query that comes back with the row whatever the id
RunFound_Mutant(id) == TRUE

\* tasks.py:23-25 -- the query by id finds the row or returns None
RunFound(id) == id = RunId

\* a task that does not look at the cancellation
CancelledBeforeStart_Mutant(status) == FALSE

\* tasks.py:30 -- the only place the task looks at a cancellation
CancelledBeforeStart(status) == status = "cancelled"

\* tasks.py:19-33 -- query the run; return at once (through the finally
\* block) when there is none or when it is cancelled
WorkerLoad ==
    /\ wpc = "idle"
    /\ IF ~RunFound(test_run_id)
       THEN /\ final_status' = "error"
            /\ final_message' = Some("TestRun not found")
            /\ FinallyWithoutRun
            /\ wpc' = "done"
            /\ w_loaded' = w_loaded
       ELSE IF CancelledBeforeStart(run.status)
       THEN /\ w_loaded' = run
            /\ final_status' = "cancelled"
            /\ final_message' = None
            /\ Finally(run, {})
            /\ wpc' = "done"
       ELSE /\ w_loaded' = run
            /\ w_obj' = run
            /\ wpc' = "start"
            /\ UNCHANGED <<run, now, returnVars>>
    /\ UNCHANGED <<results, givenVars, concurrentVars, deliveries, t_pc, w_raised,
                   serviceVars, cancelVars>>

\* a start that moves the run to running without a start_time
WorkerStart_Mutant ==
    /\ wpc = "start"
    /\ \E t \in ClockReadings :
          /\ now' = t
          /\ LET obj == [w_obj EXCEPT !.status = "running",
                                      !.celery_task_id = Some(TaskId)]
             IN  /\ run' = CommitRow(run, obj, ChangedColumns(w_obj, obj))
                 /\ w_obj' = run'
    /\ wpc' = "prepare"
    /\ UNCHANGED <<results, givenVars, concurrentVars, deliveries, t_pc, w_loaded,
                   returnVars, w_raised, serviceVars, cancelVars>>

\* tasks.py:35-39 -- status running, task id, start_time; commit; refresh
WorkerStart ==
    /\ wpc = "start"
    /\ \E t \in ClockReadings :
          /\ now' = t
          /\ LET obj == [w_obj EXCEPT !.status = "running",
                                      !.celery_task_id = Some(TaskId),
                                      !.start_time = Some(t)]
             IN  /\ run' = CommitRow(run, obj, ChangedColumns(w_obj, obj))
                 /\ w_obj' = run'
    /\ wpc' = "prepare"
    /\ UNCHANGED <<results, givenVars, concurrentVars, deliveries, t_pc, w_loaded,
                   returnVars, w_raised, serviceVars, cancelVars>>

\* ----------------------------------------------------------------- service
\* What awaiting a test function gives: "ok" a dict with success true, "notok"
\* a dict with success false, "raise" an exception, "sync_dict" a plain dict
\* returned by a function that is not a coroutine (the await itself then
\* raises TypeError).  The test functions of the service return success or let
\* the adapter's exception escape; test_list_resources and the snapshot
\* deletion make no adapter call; an unknown resource kind returns success false.
ThunkResults(test_name) ==
    CASE test_name = "Proxmox Connection" -> {"sync_dict"}
      [] test_name = "List Resources" -> {"ok"}
      [] test_name = "Delete Snapshot" -> {"ok"}
      [] test_name \in {"Create VM", "Get VM Status", "Create Snapshot",
                       "List Snapshots", "List Storage on Node", "Delete Vm"}
            -> {"ok", "raise"}
      [] OTHER -> {"notok"}

\* everything awaiting a test function can give, for a caller that passes any
\* test function: the above, and "non_dict", a result that is not a dict
AllThunkResults == {"ok", "notok", "raise", "sync_dict", "non_dict"}

\* an executor that calls the test function whether or not there is a client
ThunkInvoked_Mutant(api, test_name) == TRUE

\* _execute_test_case, line 223: is the test function called at all
ThunkInvoked(api, test_name) ==
    ~(api = "none" /\ test_name # "Proxmox Connection")

\* _execute_test_case, lines 219-249: the status recorded for an outcome
ExecuteStatus(api, test_name, thunk_result) ==
    IF ~ThunkInvoked(api, test_name) THEN "error"
    ELSE CASE thunk_result = "ok" -> "pass"
           [] thunk_result = "notok" -> "fail"
           [] OTHER -> "error"

\* _execute_test_case, lines 220-247: the message recorded for an outcome
ExecuteMessage(api, test_name, thunk_result) ==
    IF ~ThunkInvoked(api, test_name) THEN "Proxmox API client not initialized."
    ELSE CASE thunk_result \in {"ok", "notok"} -> "message of the test function"
           [] thunk_result = "non_dict" ->
                 "Test function returned an unexpected result type."
           [] OTHER -> "Exception: text of the exception"

\* _execute_test_case, lines 221-248 and 256: the logs recorded for an outcome
ExecuteLogs(api, test_name, thunk_result) ==
    IF ~ThunkInvoked(api, test_name) THEN "None"
    ELSE CASE thunk_result = "ok" -> "Data: data of the result, if any"
           [] thunk_result = "notok" -> "Error Details: error of the result, if any"
           [] thunk_result = "non_dict" -> "Unexpected result: the result"
           [] OTHER -> "Traceback: traceback.format_exc()"

\* _execute_test_case, lines 235, 240, 244, 248: the label written before a
\* payload
LogsLabel(thunk_result) ==
    CASE thunk_result = "ok" -> "Data: "
      [] thunk_result = "notok" -> "Error Details: "
      [] thunk_result = "non_dict" -> "Unexpected result: "
      [] OTHER -> "Traceback: "

\* the same lines: what is kept of a payload of n characters; only line 235
\* slices
Captured(thunk_result, n) ==
    IF thunk_result = "ok" /\ n > DataCap THEN DataCap ELSE n

\* _execute_test_case, lines 221-248 and 256: the number of characters of the
\* logs stored, for a payload of n characters; the data and the error of a dict
\* are logged only when they are there (lines 234, 239), and strip() takes the
\* blank off a label nothing follows
LogsLength(api, test_name, thunk_result, n) ==
    IF ~ThunkInvoked(api, test_name) THEN 0
    ELSE IF n = 0
    THEN IF thunk_result \in {"ok", "notok"} THEN 0
         ELSE Len(LogsLabel(thunk_result)) - 1
    ELSE Len(LogsLabel(thunk_result)) + Captured(thunk_result, n)

\* a return value that is true for every status but fail
ExecuteReturns_Mutant(status) == status # "fail"

\* _execute_test_case, line 260
ExecuteReturns(status) == status = "pass"

\* _execute_test_case, line 223: the call will reach the await of line 228
AwaitsThunk(test_name) ==
    in_flight = None /\ ThunkInvoked(proxmox_api, test_name)

\* _execute_test_case, lines 218-228: the test function is called and awaited
ExecuteTestCaseCall(test_name) ==
    /\ in_flight' = Some(test_name)
    /\ invoked' = Append(invoked, test_name)

\* an executor whose CaseResult is stored ahead of the earlier ones
ExecuteTestCase_Mutant(category, test_name, thunk_result) ==
    LET status == ExecuteStatus(proxmox_api, test_name, thunk_result)
    IN  /\ results' = <<CaseResult(category, test_name, status, "perf_counter",
                         ExecuteMessage(proxmox_api, test_name, thunk_result),
                         ExecuteLogs(proxmox_api, test_name, thunk_result))>>
                      \o results
        /\ tc_returned' = ExecuteReturns(status)
        /\ thunk_outcome' = IF ThunkInvoked(proxmox_api, test_name)
                            THEN thunk_result ELSE "not_called"
        /\ logs_len' = LogsLength(proxmox_api, test_name, thunk_result, payload_len)
        /\ in_flight' = None
        /\ invoked' = invoked

\* _execute_test_case, lines 229-260 (or 223-225 when the test function is not
\* called): one CaseResult added and committed, then the return
ExecuteTestCase(category, test_name, thunk_result) ==
    LET status == ExecuteStatus(proxmox_api, test_name, thunk_result)
    IN  /\ results' = Append(results,
              CaseResult(category, test_name, status, "perf_counter",
                         ExecuteMessage(proxmox_api, test_name, thunk_result),
                         ExecuteLogs(proxmox_api, test_name, thunk_result)))
        /\ tc_returned' = ExecuteReturns(status)
        /\ thunk_outcome' = IF ThunkInvoked(proxmox_api, test_name)
                            THEN thunk_result ELSE "not_called"
        /\ logs_len' = LogsLength(proxmox_api, test_name, thunk_result, payload_len)
        /\ in_flight' = None
        /\ invoked' = invoked

\* _skip_test_case: one skipped CaseResult with duration 0, no call
SkipTestCase(category, test_name, reason) ==
    /\ results' = Append(results,
          CaseResult(category, test_name, "skipped", "0", reason, "None"))
    /\ UNCHANGED <<invoked, in_flight, tc_returned, thunk_outcome, logs_len>>

\* the blocks of run_selected_tests, in program order
StageOrder == <<"rd", "create_vm", "vm_status", "create_snap", "list_snap", "storage">>

\* the `if` that guards each block (lines 278, 288, 295, 303, 308, 314); a
\* selection whose "VM Management" entry is not a mapping makes line 288 raise
StageActive(stage) ==
    CASE stage = "rd" -> "List Resources" \in config.selected
      [] stage = "create_vm" ->
            config.fault = "bad_selection" \/ "Create VM" \in config.selected
      [] stage = "vm_status" ->
            "Get VM Status" \in config.selected /\ config.enable_destructive_tests
      [] stage = "create_snap" ->
            "Create Snapshot" \in config.selected /\ config.enable_destructive_tests
      [] stage = "list_snap" ->
            "List Snapshots" \in config.selected /\ config.enable_destructive_tests
      [] stage = "storage" -> "List Storage" \in config.selected

\* a suite that looks at the run before each block and ends when it finds it
\* cancelled
NextStage_Mutant(i) ==
    LET later == {j \in (i + 1)..Len(StageOrder) : StageActive(StageOrder[j])}
    IN  IF run.status = "cancelled" THEN "aggregate"
        ELSE IF later = {} THEN "cleanup"
        ELSE StageOrder[CHOOSE j \in later : \A k \in later : j <= k]

\* the next block after block number i whose guard holds; blocks whose guard
\* is false have no effect and are passed over in the same step
NextStage(i) ==
    LET later == {j \in (i + 1)..Len(StageOrder) : StageActive(StageOrder[j])}
    IN  IF later = {} THEN "cleanup"
        ELSE StageOrder[CHOOSE j \in later : \A k \in later : j <= k]

\* tasks.py:41-51 with ProxmoxNonInteractiveService.__init__ and _connect: the
\* configuration and its profile must exist; a failed connection is swallowed
\* and leaves proxmox_api = None
WorkerPrepare ==
    /\ wpc = "prepare"
    /\ IF config.fault \in {"no_config", "no_profile"}
       THEN /\ wpc' = "except"
            /\ UNCHANGED <<proxmox_api, created_resources_for_cleanup>>
       ELSE \E connected \in BOOLEAN :
              /\ proxmox_api' = IF connected THEN "mock" ELSE "none"
              /\ created_resources_for_cleanup' = <<>>
              /\ wpc' = IF connected THEN NextStage(0) ELSE "conn"
    /\ UNCHANGED <<run, results, givenVars, concurrentVars, deliveries, now, t_pc,
                   w_loaded, w_obj, returnVars, w_raised, cleanup_iter, invoked,
                   in_flight, tc_returned, thunk_outcome, logs_len, cancelVars>>

\* a connection check that records its case and goes on with the suite
RunConnectionCheck_Mutant ==
    /\ wpc = "conn"
    /\ proxmox_api = "none"
    /\ IF AwaitsThunk("Proxmox Connection")
       THEN /\ ExecuteTestCaseCall("Proxmox Connection")
            /\ UNCHANGED <<results, tc_returned, thunk_outcome, logs_len, wpc>>
       ELSE /\ \E r \in ThunkResults("Proxmox Connection") :
                  ExecuteTestCase("Setup", "Proxmox Connection", r)
            /\ wpc' = NextStage(0)
    /\ UNCHANGED <<run, givenVars, concurrentVars, deliveries, now, t_pc, w_loaded,
                   w_obj, returnVars, w_raised, proxmox_api,
                   created_resources_for_cleanup, cleanup_iter, cancelVars>>

\* run_selected_tests, lines 266-270: without a client, one case and return
RunConnectionCheck ==
    /\ wpc = "conn"
    /\ proxmox_api = "none"
    /\ IF AwaitsThunk("Proxmox Connection")
       THEN /\ ExecuteTestCaseCall("Proxmox Connection")
            /\ UNCHANGED <<results, tc_returned, thunk_outcome, logs_len, wpc>>
       ELSE /\ \E r \in ThunkResults("Proxmox Connection") :
                  ExecuteTestCase("Setup", "Proxmox Connection", r)
            /\ wpc' = "aggregate"
    /\ UNCHANGED <<run, givenVars, concurrentVars, deliveries, now, t_pc, w_loaded,
                   w_obj, returnVars, w_raised, proxmox_api,
                   created_resources_for_cleanup, cleanup_iter, cancelVars>>

\* run_selected_tests, lines 276-279
RunListResources ==
    /\ wpc = "rd"
    /\ IF AwaitsThunk("List Resources")
       THEN /\ ExecuteTestCaseCall("List Resources")
            /\ UNCHANGED <<results, tc_returned, thunk_outcome, logs_len, wpc>>
       ELSE /\ \E r \in ThunkResults("List Resources") :
                  ExecuteTestCase(cat_rd, "List Resources", r)
            /\ wpc' = NextStage(1)
    /\ UNCHANGED <<run, givenVars, concurrentVars, deliveries, now, t_pc, w_loaded,
                   w_obj, returnVars, w_raised, proxmox_api,
                   created_resources_for_cleanup, cleanup_iter, cancelVars>>

\* a Create VM case whose failure ends the suite
RunCreateVM_Mutant ==
    /\ wpc = "create_vm"
    /\ IF config.fault = "bad_selection"
       THEN /\ UNCHANGED <<results, invoked, in_flight, tc_returned, thunk_outcome,
                           logs_len, created_resources_for_cleanup>>
            /\ wpc' = "except"
       ELSE IF ~config.enable_destructive_tests
       THEN /\ SkipTestCase(cat_vm, "Create VM", "Destructive test disabled.")
            /\ created_resources_for_cleanup' = created_resources_for_cleanup
            /\ wpc' = NextStage(2)
       ELSE IF AwaitsThunk("Create VM")
       THEN /\ ExecuteTestCaseCall("Create VM")
            /\ UNCHANGED <<results, tc_returned, thunk_outcome, logs_len, wpc,
                           created_resources_for_cleanup>>
       ELSE \E r \in ThunkResults("Create VM") :
               /\ ExecuteTestCase(cat_vm, "Create VM", r)
               /\ created_resources_for_cleanup' =
                    IF r = "ok"
                    THEN Append(created_resources_for_cleanup,
                                [type |-> "vm", name |-> "mcp-test"])
                    ELSE created_resources_for_cleanup
               /\ wpc' = IF r = "ok" THEN NextStage(2) ELSE "aggregate"
    /\ UNCHANGED <<run, givenVars, concurrentVars, deliveries, now, t_pc, w_loaded,
                   w_obj, returnVars, w_raised, proxmox_api, cleanup_iter, cancelVars>>

\* run_selected_tests, lines 281-293, and test_create_vm
RunCreateVM ==
    /\ wpc = "create_vm"
    /\ IF config.fault = "bad_selection"
       THEN /\ UNCHANGED <<results, invoked, in_flight, tc_returned, thunk_outcome,
                           logs_len, created_resources_for_cleanup>>
            /\ wpc' = "except"
       ELSE IF ~config.enable_destructive_tests
       THEN /\ SkipTestCase(cat_vm, "Create VM", "Destructive test disabled.")
            /\ created_resources_for_cleanup' = created_resources_for_cleanup
            /\ wpc' = NextStage(2)
       ELSE IF AwaitsThunk("Create VM")
       THEN /\ ExecuteTestCaseCall("Create VM")
            /\ UNCHANGED <<results, tc_returned, thunk_outcome, logs_len, wpc,
                           created_resources_for_cleanup>>
       ELSE /\ \E r \in ThunkResults("Create VM") :
                  /\ ExecuteTestCase(cat_vm, "Create VM", r)
                  /\ created_resources_for_cleanup' =
                       IF r = "ok"
                       THEN Append(created_resources_for_cleanup,
                                   [type |-> "vm", name |-> "mcp-test"])
                       ELSE created_resources_for_cleanup
            /\ wpc' = NextStage(2)
    /\ UNCHANGED <<run, givenVars, concurrentVars, deliveries, now, t_pc, w_loaded,
                   w_obj, returnVars, w_raised, proxmox_api, cleanup_iter, cancelVars>>

\* run_selected_tests, lines 295-296
RunGetVMStatus ==
    /\ wpc = "vm_status"
    /\ IF AwaitsThunk("Get VM Status")
       THEN /\ ExecuteTestCaseCall("Get VM Status")
            /\ UNCHANGED <<results, tc_returned, thunk_outcome, logs_len, wpc>>
       ELSE /\ \E r \in ThunkResults("Get VM Status") :
                  ExecuteTestCase(cat_vm, "Get VM Status", r)
            /\ wpc' = NextStage(3)
    /\ UNCHANGED <<run, givenVars, concurrentVars, deliveries, now, t_pc, w_loaded,
                   w_obj, returnVars, w_raised, proxmox_api,
                   created_resources_for_cleanup, cleanup_iter, cancelVars>>

\* a test_create_snapshot that registers the snapshot before it calls the
\* adapter, so also when the call raises
RunCreateSnapshot_Mutant ==
    /\ wpc = "create_snap"
    /\ IF AwaitsThunk("Create Snapshot")
       THEN /\ ExecuteTestCaseCall("Create Snapshot")
            /\ UNCHANGED <<results, tc_returned, thunk_outcome, logs_len, wpc,
                           created_resources_for_cleanup>>
       ELSE /\ \E r \in ThunkResults("Create Snapshot") :
                  /\ ExecuteTestCase(cat_snap, "Create Snapshot", r)
                  /\ created_resources_for_cleanup' =
                       Append(created_resources_for_cleanup,
                              [type |-> "snapshot", name |-> "testsnap"])
            /\ wpc' = NextStage(4)
    /\ UNCHANGED <<run, givenVars, concurrentVars, deliveries, now, t_pc, w_loaded,
                   w_obj, returnVars, w_raised, proxmox_api, cleanup_iter, cancelVars>>

\* run_selected_tests, lines 298-306, and test_create_snapshot
RunCreateSnapshot ==
    /\ wpc = "create_snap"
    /\ IF AwaitsThunk("Create Snapshot")
       THEN /\ ExecuteTestCaseCall("Create Snapshot")
            /\ UNCHANGED <<results, tc_returned, thunk_outcome, logs_len, wpc,
                           created_resources_for_cleanup>>
       ELSE /\ \E r \in ThunkResults("Create Snapshot") :
                  /\ ExecuteTestCase(cat_snap, "Create Snapshot", r)
                  /\ created_resources_for_cleanup' =
                       IF r = "ok"
                       THEN Append(created_resources_for_cleanup,
                                   [type |-> "snapshot", name |-> "testsnap"])
                       ELSE created_resources_for_cleanup
            /\ wpc' = NextStage(4)
    /\ UNCHANGED <<run, givenVars, concurrentVars, deliveries, now, t_pc, w_loaded,
                   w_obj, returnVars, w_raised, proxmox_api, cleanup_iter, cancelVars>>

\* run_selected_tests, lines 308-310
RunListSnapshots ==
    /\ wpc = "list_snap"
    /\ IF AwaitsThunk("List Snapshots")
       THEN /\ ExecuteTestCaseCall("List Snapshots")
            /\ UNCHANGED <<results, tc_returned, thunk_outcome, logs_len, wpc>>
       ELSE /\ \E r \in ThunkResults("List Snapshots") :
                  ExecuteTestCase(cat_snap, "List Snapshots", r)
            /\ wpc' = NextStage(5)
    /\ UNCHANGED <<run, givenVars, concurrentVars, deliveries, now, t_pc, w_loaded,
                   w_obj, returnVars, w_raised, proxmox_api,
                   created_resources_for_cleanup, cleanup_iter, cancelVars>>

\* run_selected_tests, lines 312-315
RunListStorage ==
    /\ wpc = "storage"
    /\ IF AwaitsThunk("List Storage on Node")
       THEN /\ ExecuteTestCaseCall("List Storage on Node")
            /\ UNCHANGED <<results, tc_returned, thunk_outcome, logs_len, wpc>>
       ELSE /\ \E r \in ThunkResults("List Storage on Node") :
                  ExecuteTestCase(cat_storage, "List Storage on Node", r)
            /\ wpc' = NextStage(6)
    /\ UNCHANGED <<run, givenVars, concurrentVars, deliveries, now, t_pc, w_loaded,
                   w_obj, returnVars, w_raised, proxmox_api,
                   created_resources_for_cleanup, cleanup_iter, cancelVars>>

\* ----------------------------------------------------------------- cleanup
\* the sort key of line 386, (type != 'snapshot', type != 'vm'), as a rank:
\* (False, True) < (True, False) < (True, True)
SortKey(resource) ==
    CASE resource.type = "snapshot" -> 1
      [] resource.type = "vm" -> 2
      [] OTHER -> 3

\* a sort that is not stable: entries with equal keys come out in the opposite
\* order
SortForCleanup_Mutant(registry) ==
    Reverse(SelectSeq(registry, LAMBDA x : SortKey(x) = 1))
    \o Reverse(SelectSeq(registry, LAMBDA x : SortKey(x) = 2))
    \o Reverse(SelectSeq(registry, LAMBDA x : SortKey(x) = 3))

\* list.sort(key=...) is stable
SortForCleanup(registry) ==
    SelectSeq(registry, LAMBDA x : SortKey(x) = 1)
    \o SelectSeq(registry, LAMBDA x : SortKey(x) = 2)
    \o SelectSeq(registry, LAMBDA x : SortKey(x) = 3)

\* a loop that misses the first resource of its iteration
CleanupOrder_Mutant(registry) == Tail(Reverse(SortForCleanup(registry)))

\* lines 386-389: the order in which the loop visits the registry
CleanupOrder(registry) == Reverse(SortForCleanup(registry))

\* line 395: "Delete " + res_type.capitalize()
DeleteName(resource) ==
    CASE resource.type = "snapshot" -> "Delete Snapshot"
      [] resource.type = "vm" -> "Delete Vm"
      [] OTHER -> "Delete Other"

\* a phase that returns without clearing the registry
CleanupFinished_Mutant(registry) == registry

\* line 414: the registry once the loop is over
CleanupFinished(registry) == <<>>

\* cleanup_created_resources_phase up to its loop (lines 379-389): sort, and
\* start iterating; with nothing to delete the loop body never runs and the
\* phase returns
CleanupPhase ==
    IF created_resources_for_cleanup = <<>>
    THEN /\ created_resources_for_cleanup' =
               CleanupFinished(created_resources_for_cleanup)
         /\ cleanup_iter' = cleanup_iter
         /\ wpc' = "aggregate"
    ELSE /\ created_resources_for_cleanup' =
               SortForCleanup(created_resources_for_cleanup)
         /\ cleanup_iter' = CleanupOrder(created_resources_for_cleanup)
         /\ wpc' = "cleanup_loop"

\* a guard that forgets the cleanup_resources flag
CleanupEnabled_Mutant(cfg) == cfg.enable_destructive_tests

\* run_selected_tests, line 320
CleanupEnabled(cfg) == cfg.enable_destructive_tests /\ cfg.cleanup_resources

\* run_selected_tests, lines 319-323: the phase when enabled, then the return
\* to the task (wpc = "aggregate": the service has returned to its caller)
CleanupPhaseStart ==
    /\ wpc = "cleanup"
    /\ IF CleanupEnabled(config)
       THEN CleanupPhase
       ELSE /\ UNCHANGED <<created_resources_for_cleanup, cleanup_iter>>
            /\ wpc' = "aggregate"
    /\ UNCHANGED <<run, results, givenVars, concurrentVars, deliveries, now, t_pc,
                   w_loaded, w_obj, returnVars, w_raised, proxmox_api, invoked,
                   in_flight, tc_returned, thunk_outcome, logs_len, cancelVars>>

\* one iteration of the loop of lines 389-412: the deletion is called, then
\* its case is recorded; after the last one the registry is cleared (line 414)
\* and the phase returns
CleanupDelete ==
    /\ wpc = "cleanup_loop"
    /\ cleanup_iter # <<>>
    /\ LET test_name_cleanup == DeleteName(Head(cleanup_iter))
       IN  IF AwaitsThunk(test_name_cleanup)
           THEN /\ ExecuteTestCaseCall(test_name_cleanup)
                /\ UNCHANGED <<results, tc_returned, thunk_outcome, logs_len, wpc,
                               cleanup_iter, created_resources_for_cleanup>>
           ELSE /\ \E r \in ThunkResults(test_name_cleanup) :
                      ExecuteTestCase(cat_cleanup, test_name_cleanup, r)
                /\ cleanup_iter' = Tail(cleanup_iter)
                /\ IF Tail(cleanup_iter) = <<>>
                   THEN /\ created_resources_for_cleanup' =
                              CleanupFinished(created_resources_for_cleanup)
                        /\ wpc' = "aggregate"
                   ELSE /\ created_resources_for_cleanup' =
                              created_resources_for_cleanup
                        /\ wpc' = "cleanup_loop"
    /\ UNCHANGED <<run, givenVars, concurrentVars, deliveries, now, t_pc, w_loaded,
                   w_obj, returnVars, w_raised, proxmox_api, cancelVars>>

\* ------------------------------------------------------- end of the worker
\* a count that misses the row stored first
CountStatus_Mutant(rs, statuses) ==
    Cardinality({i \in DOMAIN rs \ {1} : rs[i].status \in statuses})

\* tasks.py:62-77 -- query(...).filter(status ...).count()
CountStatus(rs, statuses) ==
    Cardinality({i \in DOMAIN rs : rs[i].status \in statuses})

\* a verdict whose first count misses the cases recorded as error
StatusAggregate_Mutant(rs) ==
    IF CountStatus(rs, {"fail"}) > 0 THEN "fail"
    ELSE IF CountStatus(rs, {"skipped"}) = Len(rs) /\ Len(rs) > 0 THEN "skipped"
    ELSE IF CountStatus(rs, {"pass"}) > 0 THEN "pass"
    ELSE "completed"

\* tasks.py:62-80 -- the verdict, from the count queries
StatusAggregate(rs) ==
    IF CountStatus(rs, {"fail", "error"}) > 0 THEN "fail"
    ELSE IF CountStatus(rs, {"skipped"}) = Len(rs) /\ Len(rs) > 0 THEN "skipped"
    ELSE IF CountStatus(rs, {"pass"}) > 0 THEN "pass"
    ELSE "completed"

\* tasks.py:60-84, then the finally block and the return of line 115
WorkerAggregate ==
    /\ wpc = "aggregate"
    /\ LET obj == [w_obj EXCEPT !.overall_status = Some(StatusAggregate(results)),
                                !.status = "completed"]
       IN  Finally(obj, {"overall_status", "status"})
    /\ final_status' = "success"
    /\ final_message' = None
    /\ wpc' = "done"
    /\ UNCHANGED <<results, givenVars, concurrentVars, deliveries, t_pc, w_loaded,
                   w_raised, serviceVars, cancelVars>>

\* tasks.py:1-7 -- the module imports names from app.models but not `models`
ModelsNameBound == FALSE

\* tasks.py:86-106, then the finally block; models.TestCaseResult at line 95
\* raises NameError, which leaves the handler before the case is added and
\* before final_status is assigned, and propagates after the finally block
WorkerExcept ==
    /\ wpc = "except"
    /\ LET obj == [w_obj EXCEPT !.status = "failed",
                                !.overall_status = Some("error")]
       IN  Finally(obj, {"status", "overall_status"})
    /\ IF ModelsNameBound
       THEN /\ results' = Append(results,
                   CaseResult("Task Execution", "System Error", "error", "0",
                              "Task failed: text of the exception",
                              "Traceback: e.__traceback__"))
            /\ final_status' = "error"
            /\ final_message' = Some("text of the exception")
            /\ w_raised' = FALSE
       ELSE /\ results' = results
            /\ final_status' = final_status
            /\ final_message' = final_message
            /\ w_raised' = TRUE
    /\ wpc' = "done"
    /\ UNCHANGED <<givenVars, concurrentVars, deliveries, t_pc, w_loaded,
                   serviceVars, cancelVars>>

\* ----------------------------------------------------------- specification
Worker ==
    \/ WorkerLoad \/ WorkerStart \/ WorkerPrepare
    \/ RunConnectionCheck \/ RunListResources \/ RunCreateVM \/ RunGetVMStatus
    \/ RunCreateSnapshot \/ RunListSnapshots \/ RunListStorage
    \/ CleanupPhaseStart \/ CleanupDelete
    \/ WorkerAggregate \/ WorkerExcept

Next ==
    \/ TriggerStoreTaskId
    \/ CancelLoad
    \/ CancelCommit
    \/ WorkerLoad
    \/ WorkerStart
    \/ WorkerPrepare
    \/ RunConnectionCheck
    \/ RunListResources
    \/ RunCreateVM
    \/ RunGetVMStatus
    \/ RunCreateSnapshot
    \/ RunListSnapshots
    \/ RunListStorage
    \/ CleanupPhaseStart
    \/ CleanupDelete
    \/ WorkerAggregate
    \/ WorkerExcept

Spec == Init /\ [][Next]_vars

\* the worker process keeps executing the task it has picked up
FairSpec == Spec /\ WF_vars(Worker)

\* --------------------------------------------------------------- redelivery
\* run_mcp_tests_task entered again for the same run (lines 13-20): a fresh
\* worker execution with its own session and service, after the earlier one
\* has ended; the row and the CaseResults are what the earlier one left
Redeliver ==
    /\ wpc = "done"
    /\ deliveries < MaxDeliveries
    /\ deliveries' = deliveries + 1
    /\ wpc' = "idle"
    /\ w_loaded' = NewRun
    /\ w_obj' = NewRun
    /\ final_status' = "unset"
    /\ final_message' = None
    /\ session_closes' = 0
    /\ w_raised' = FALSE
    /\ proxmox_api' = "unset"
    /\ created_resources_for_cleanup' = <<>>
    /\ cleanup_iter' = <<>>
    /\ invoked' = <<>>
    /\ in_flight' = None
    /\ tc_returned' = FALSE
    /\ thunk_outcome' = "not_called"
    /\ logs_len' = 0
    /\ UNCHANGED <<run, results, givenVars, concurrentVars, now, t_pc, cancelVars>>

\* the configurations whose task is delivered again: nothing selected, the VM
\* cases, the snapshot and storage cases, and each way the orchestration can
\* fault
RedeliveryConfigs ==
    {c \in Configs :
        /\ c.selected \in {{}, {"List Resources", "Create VM", "Get VM Status"},
                            {"Create Snapshot", "List Snapshots", "List Storage"}}
        /\ c.cleanup_resources}

RedeliveryInit ==
    /\ InitRun
    /\ InitWorker
    /\ ConcurrentIdle
    /\ payload_len = DataCap
    /\ test_run_id = RunId
    /\ config \in RedeliveryConfigs
    /\ cancel_requests = 0

RedeliveryNext ==
    \/ TriggerStoreTaskId
    \/ Worker
    \/ Redeliver

RedeliverySpec == RedeliveryInit /\ [][RedeliveryNext]_vars

\* ------------------------------------------------------- the service alone
\* what a caller may have put in the registry: the two kinds the service
\* registers, and one it does not know (line 409 names 'container')
ResourceKinds == {"vm", "snapshot", "container"}

\* a registry entry; the id tells the entries of one kind apart
ResourceOfKind(kind, id) ==
    [type |-> kind,
     name |-> CASE kind = "vm" -> "mcp-test"
                [] kind = "snapshot" -> "testsnap"
                [] OTHER -> "ct",
     id |-> id]

\* registries of up to MaxRegistry entries of any kinds, the entry registered
\* i-th having id i
Registries ==
    UNION {{[i \in 1..n |-> ResourceOfKind(kinds[i], i)] :
              kinds \in [1..n -> ResourceKinds]} : n \in 0..MaxRegistry}

\* sizes of what a test function returns or raises: nothing, as much as the
\* cap, and more
PayloadLengths == {0, DataCap, DataCap + DataCap}

\* the test names a caller passes: line 223 tells the connection case apart
CallerTestNames == {"Proxmox Connection", "Test Case"}

\* a service constructed by a caller, connected or not, with any registry
ServiceInit ==
    /\ InitRun
    /\ ConcurrentIdle
    /\ test_run_id = RunId
    /\ payload_len \in PayloadLengths
    /\ wpc = "service"
    /\ proxmox_api \in {"mock", "none"}
    /\ created_resources_for_cleanup \in Registries
    /\ config = [selected |-> {}, enable_destructive_tests |-> TRUE,
                 cleanup_resources |-> TRUE, fault |-> "none"]
    /\ cancel_requests = 0

\* the caller awaits _execute_test_case with a test function of its own
ServiceExecuteCall ==
    /\ wpc = "service"
    /\ Len(results) < MaxCalls
    /\ \E test_name \in CallerTestNames :
          IF AwaitsThunk(test_name)
          THEN /\ ExecuteTestCaseCall(test_name)
               /\ wpc' = "service_case"
               /\ UNCHANGED <<results, tc_returned, thunk_outcome, logs_len>>
          ELSE /\ ExecuteTestCase("Category", test_name, "ok")
               /\ wpc' = "service"
    /\ UNCHANGED <<run, givenVars, concurrentVars, deliveries, now, t_pc, w_loaded,
                   w_obj, returnVars, w_raised, proxmox_api,
                   created_resources_for_cleanup, cleanup_iter, cancelVars>>

\* the test function of the caller ends, in any of the ways it can
ServiceExecuteReturn ==
    /\ wpc = "service_case"
    /\ \E r \in AllThunkResults :
          ExecuteTestCase("Category", Val(in_flight), r)
    /\ wpc' = "service"
    /\ UNCHANGED <<run, givenVars, concurrentVars, deliveries, now, t_pc, w_loaded,
                   w_obj, returnVars, w_raised, proxmox_api,
                   created_resources_for_cleanup, cleanup_iter, cancelVars>>

\* the caller awaits cleanup_created_resources_phase
ServiceCleanup ==
    /\ wpc = "service"
    /\ CleanupPhase
    /\ UNCHANGED <<run, results, givenVars, concurrentVars, deliveries, now, t_pc,
                   w_loaded, w_obj, returnVars, w_raised, proxmox_api, invoked,
                   in_flight, tc_returned, thunk_outcome, logs_len, cancelVars>>

\* the phase has returned to the caller
ServiceReturn ==
    /\ wpc = "aggregate"
    /\ wpc' = "service"
    /\ UNCHANGED <<run, results, givenVars, concurrentVars, deliveries, now, t_pc,
                   w_loaded, w_obj, returnVars, w_raised, serviceVars, cancelVars>>

ServiceNext ==
    \/ ServiceExecuteCall
    \/ ServiceExecuteReturn
    \/ ServiceCleanup
    \/ CleanupDelete
    \/ ServiceReturn

ServiceSpec == ServiceInit /\ [][ServiceNext]_vars

\* ------------------------------------------------- two runs executed at once
\* Two executions of run_mcp_tests_task on independent workers, each for its
\* own run, both connected, both with Create VM and Create Snapshot selected
\* and destructive tests and cleanup enabled.  The test_case_results table is
\* the only thing both write.  added_by, committed_by and created_by record
\* which execution did it; the code does not store them.

\* the rest of the state stays as it is while the two runs are executed
singleRunVars == <<run, results, givenVars, deliveries, now, t_pc, workerVars,
                   serviceVars, cancelVars>>

\* tasks.py:19 -- every execution of the task calls get_task_db_session()
\* for a session of its own, and hands it to its service (line 51)
SessionOf(w) == w

\* proxmox_service.py:177 -- the registry is an attribute of the service
\* instance the execution has constructed
RegistryOf(w) == w

\* tasks.py:58 and proxmox_service.py:254 -- the id the CaseResults are stored
\* under: the test_run.id the task passes to run_selected_tests
CaseRunId(w) == tasks[w].test_run_id

\* count queries that forget the filter on the run
CountedRows_Mutant(id) == test_case_results

\* tasks.py:62-77 -- the rows the count queries look at
CountedRows(id) == SelectSeq(test_case_results, LAMBDA r : r.test_run_id = id)

\* tasks.py:19-51 -- the run is loaded and moved to running, the service is
\* constructed with an empty registry
ConcurrentStart(w) ==
    /\ tasks[w].pc = "idle"
    /\ test_runs' = [test_runs EXCEPT ![tasks[w].test_run_id].status = "running"]
    /\ registries' = [registries EXCEPT ![RegistryOf(w)] = <<>>]
    /\ tasks' = [tasks EXCEPT ![w].pc = "create_vm"]
    /\ UNCHANGED <<test_case_results, sessions, singleRunVars>>

\* the case a position of run_selected_tests executes
ConcurrentCase(pc) ==
    IF pc = "create_vm"
    THEN [category |-> cat_vm, test_name |-> "Create VM", type |-> "vm",
          name |-> "mcp-test"]
    ELSE [category |-> cat_snap, test_name |-> "Create Snapshot",
          type |-> "snapshot", name |-> "testsnap"]

\* _execute_test_case up to db.add (line 258), for Create VM (lines 288-291)
\* and Create Snapshot (lines 303-306): the test function has ended, and has
\* registered what it created; the CaseResult is in the session
ConcurrentExecute(w) ==
    /\ tasks[w].pc \in {"create_vm", "create_snap"}
    /\ ~tasks[w].uncommitted
    /\ LET case == ConcurrentCase(tasks[w].pc)
       IN  \E r \in ThunkResults(case.test_name) :
              /\ sessions' = [sessions EXCEPT ![SessionOf(w)] =
                    Append(@, [test_run_id |-> CaseRunId(w),
                               category |-> case.category,
                               test_name |-> case.test_name,
                               status |-> ExecuteStatus("mock", case.test_name, r),
                               added_by |-> w])]
              /\ registries' =
                    IF r = "ok"
                    THEN [registries EXCEPT ![RegistryOf(w)] =
                            Append(@, [type |-> case.type, name |-> case.name,
                                       created_by |-> w])]
                    ELSE registries
    /\ tasks' = [tasks EXCEPT ![w].uncommitted = TRUE]
    /\ UNCHANGED <<test_runs, test_case_results, singleRunVars>>

\* db.commit() of line 259: what is in the session goes to the table; then
\* the return to run_selected_tests, or to the loop of the cleanup phase,
\* which clears the registry (line 414) once it is over
ConcurrentCommit(w) ==
    /\ tasks[w].uncommitted
    /\ test_case_results' = test_case_results \o
          [i \in DOMAIN sessions[SessionOf(w)] |->
             [test_run_id |-> sessions[SessionOf(w)][i].test_run_id,
              category |-> sessions[SessionOf(w)][i].category,
              test_name |-> sessions[SessionOf(w)][i].test_name,
              status |-> sessions[SessionOf(w)][i].status,
              added_by |-> sessions[SessionOf(w)][i].added_by,
              committed_by |-> w]]
    /\ sessions' = [sessions EXCEPT ![SessionOf(w)] = <<>>]
    /\ LET over == tasks[w].pc = "cleanup_loop" /\ tasks[w].cleanup_iter = <<>>
       IN  /\ tasks' = [tasks EXCEPT
                 ![w].uncommitted = FALSE,
                 ![w].pc = CASE tasks[w].pc = "create_vm" -> "create_snap"
                             [] tasks[w].pc = "create_snap" -> "cleanup"
                             [] over -> "aggregate"
                             [] OTHER -> "cleanup_loop"]
           /\ registries' =
                 IF over
                 THEN [registries EXCEPT ![RegistryOf(w)] = CleanupFinished(@)]
                 ELSE registries
    /\ UNCHANGED <<test_runs, singleRunVars>>

\* cleanup_created_resources_phase up to its loop (lines 379-389)
ConcurrentCleanup(w) ==
    /\ tasks[w].pc = "cleanup"
    /\ LET registry == registries[RegistryOf(w)]
       IN  IF registry = <<>>
           THEN /\ tasks' = [tasks EXCEPT ![w].pc = "aggregate"]
                /\ registries' = registries
           ELSE /\ tasks' = [tasks EXCEPT ![w].pc = "cleanup_loop",
                                          ![w].cleanup_iter = CleanupOrder(registry)]
                /\ registries' = [registries EXCEPT ![RegistryOf(w)] =
                                     SortForCleanup(registry)]
    /\ UNCHANGED <<test_runs, test_case_results, sessions, singleRunVars>>

\* one iteration of the loop (lines 389-412) up to db.add: the deletion has
\* ended and its CaseResult is in the session
ConcurrentDelete(w) ==
    /\ tasks[w].pc = "cleanup_loop"
    /\ ~tasks[w].uncommitted
    /\ tasks[w].cleanup_iter # <<>>
    /\ LET resource == Head(tasks[w].cleanup_iter)
       IN  \E r \in ThunkResults(DeleteName(resource)) :
              sessions' = [sessions EXCEPT ![SessionOf(w)] =
                 Append(@, [test_run_id |-> CaseRunId(w),
                            category |-> cat_cleanup,
                            test_name |-> DeleteName(resource),
                            status |-> ExecuteStatus("mock", DeleteName(resource), r),
                            added_by |-> w])]
    /\ tasks' = [tasks EXCEPT ![w].uncommitted = TRUE,
                              ![w].cleanup_iter = Tail(@)]
    /\ UNCHANGED <<test_runs, test_case_results, registries, singleRunVars>>

\* tasks.py:60-84 and the commit of the finally block
ConcurrentAggregate(w) ==
    /\ tasks[w].pc = "aggregate"
    /\ test_runs' = [test_runs EXCEPT ![tasks[w].test_run_id] =
          [status |-> "completed",
           overall_status |->
              Some(StatusAggregate(CountedRows(tasks[w].test_run_id)))]]
    /\ tasks' = [tasks EXCEPT ![w].pc = "done"]
    /\ UNCHANGED <<test_case_results, sessions, registries, singleRunVars>>

ConcurrentInit ==
    /\ InitRun
    /\ InitWorker
    /\ ConcurrentIdle
    /\ test_run_id = RunId
    /\ payload_len = DataCap
    /\ config = [selected |-> {"Create VM", "Create Snapshot"},
                 enable_destructive_tests |-> TRUE,
                 cleanup_resources |-> TRUE, fault |-> "none"]
    /\ cancel_requests = 0

ConcurrentNext ==
    \/ \E w \in TaskExecutions : ConcurrentStart(w)
    \/ \E w \in TaskExecutions : ConcurrentExecute(w)
    \/ \E w \in TaskExecutions : ConcurrentCommit(w)
    \/ \E w \in TaskExecutions : ConcurrentCleanup(w)
    \/ \E w \in TaskExecutions : ConcurrentDelete(w)
    \/ \E w \in TaskExecutions : ConcurrentAggregate(w)

ConcurrentSpec == ConcurrentInit /\ [][ConcurrentNext]_vars

TypeOK ==
    /\ run.status \in {"pending", "queued", "running"} \cup TerminalStatuses
    /\ now \in 0..MaxTime
    /\ cancels \in 0..MaxCancels
    /\ deliveries \in 1..MaxDeliveries
    /\ tc_returned \in BOOLEAN
    /\ thunk_outcome \in AllThunkResults \cup {"not_called"}
    /\ in_flight \in {None} \cup {Some(n) : n \in Range(invoked)}
    /\ test_run_id \in TaskArguments
    /\ payload_len \in PayloadLengths
    /\ logs_len \in 0..(DataCap + DataCap + Len(LogsLabel("non_dict")))
    /\ session_closes \in 0..1
    /\ final_message \in {None, Some("TestRun not found"), Some("text of the exception")}

\* ------------------------------------------------------------------ claims
ResultsNamed(test_name) == {i \in DOMAIN results : results[i].test_name = test_name}

\* C1: once the persisted Run.status is completed, failed or cancelled, no
\* later write of the task or of the cancel endpoint changes it.
C1_TerminalStatusIsFinal ==
    [][run.status \in TerminalStatuses => run'.status = run.status]_vars

\* C2: a cancel request that finds the run completed, failed or cancelled is
\* answered with 400 and ends there: the row is unchanged and revoke is not called.
C2_CancelOfTerminalRunRejected ==
    [][(CancelLoad /\ run.status \in TerminalStatuses)
         => /\ run' = run
            /\ revoked' = revoked
            /\ c_response' = 400
            /\ c_pc' = "idle"]_vars

C2_Witness ==
    /\ c_response = 400
    /\ c_pc = "idle"
    /\ run.status = "completed"
    /\ cancels > 0

\* C3: after an accepted cancel the Run has status and overall_status
\* cancelled, end_time is set, an end_time that was already set is kept, and
\* duration_seconds is a non-negative integer.
C3_CancelEffect ==
    [][CancelCommit
         => /\ run'.status = "cancelled"
            /\ run'.overall_status = Some("cancelled")
            /\ IsSet(run'.end_time)
            /\ IsSet(run.end_time) => run'.end_time = run.end_time
            /\ IsSet(run'.duration_seconds) => Val(run'.duration_seconds) >= 0]_vars

\* the precedence of the Status Aggregator, as the specification words it
Precedence(rs) ==
    IF \E i \in DOMAIN rs : rs[i].status \in {"fail", "error"} THEN "fail"
    ELSE IF rs # <<>> /\ \A i \in DOMAIN rs : rs[i].status = "skipped" THEN "skipped"
    ELSE IF \E i \in DOMAIN rs : rs[i].status = "pass" THEN "pass"
    ELSE "completed"

C5_SnapshotsDeletedBeforeVMs ==
    \A i \in ResultsNamed("Delete Snapshot") :
       \A j \in ResultsNamed("Delete Vm") : i < j

\* the cases that run only when destructive tests are enabled
DestructiveTests == {"Create VM", "Get VM Status", "Create Snapshot", "List Snapshots"}

\* C6: with destructive tests disabled, every selected destructive case ends
\* with exactly one CaseResult, skipped, duration 0, message "... disabled",
\* and its test function is never called.
C6_DisabledCasesRecordedAsSkipped ==
    (/\ wpc = "done"
     /\ final_status = "success"
     /\ proxmox_api = "mock"
     /\ ~config.enable_destructive_tests)
    => \A t \in DestructiveTests \cap config.selected :
          /\ Cardinality(ResultsNamed(t)) = 1
          /\ \A i \in ResultsNamed(t) :
                /\ results[i].status = "skipped"
                /\ results[i].duration_seconds = "0"
                /\ results[i].message = "Destructive test disabled."
          /\ t \notin Range(invoked)

\* what a run whose connection failed has recorded when the task ends
OnlyTheSetupCase(rs, calls) ==
    /\ Len(rs) = 1
    /\ rs[1].category = "Setup"
    /\ rs[1].status = "error"
    /\ Range(calls) \subseteq {"Proxmox Connection"}

\* C7 (as amended): when the connection fails, the run ends with exactly one
\* CaseResult (Setup, error), nothing else is recorded or called, the task
\* returns without raising, and the Run is committed with status completed and
\* overall_status fail.
C7_ConnectionFailureCompletes ==
    [][(WorkerAggregate /\ proxmox_api = "none")
         => /\ OnlyTheSetupCase(results', invoked')
            /\ run'.status = "completed"
            /\ run'.overall_status = Some("fail")
            /\ final_status' = "success"
            /\ ~w_raised']_vars

C7_Witness ==
    /\ wpc = "done"
    /\ proxmox_api = "none"
    /\ OnlyTheSetupCase(results, invoked)
    /\ run.status = "completed"
    /\ run.overall_status = Some("fail")
    /\ "Create VM" \in config.selected

\* C7 (as claimed): the same, with Run.status failed.
C7_ConnectionFailureFails ==
    [][(WorkerAggregate /\ proxmox_api = "none")
         => /\ OnlyTheSetupCase(results', invoked')
            /\ run'.status = "failed"
            /\ ~w_raised']_vars

\* C8: an exception escaping the orchestration is caught once: exactly one
\* "System Error" CaseResult with status error is recorded, the Run is
\* committed failed / error with end_time set, and the task returns an error
\* result instead of raising.
C8_FaultRecordedAndReturned ==
    [][WorkerExcept
         => /\ Cardinality({i \in DOMAIN results' :
                              /\ results'[i].test_name = "System Error"
                              /\ results'[i].status = "error"}) = 1
            /\ run'.status = "failed"
            /\ run'.overall_status = Some("error")
            /\ IsSet(run'.end_time)
            /\ final_status' = "error"
            /\ ~w_raised']_vars

\* C9: under weak fairness of the worker, a run that the worker has moved to
\* running eventually is persisted as completed, failed or cancelled with
\* end_time set; and no finished worker execution leaves it running.
C9_NeverLeftRunning ==
    /\ IsSet(run.start_time) ~> (run.status \in TerminalStatuses /\ IsSet(run.end_time))
    /\ [](wpc = "done" => run.status # "running")

C9_Witness ==
    /\ wpc = "done"
    /\ w_raised
    /\ IsSet(run.start_time)
    /\ run.status = "failed"
    /\ IsSet(run.end_time)

\* C10: a worker that loads a run already cancelled returns at once: no
\* connection, no case called, no CaseResult, and status, overall_status,
\* start_time, end_time and duration_seconds stay as the cancel left them.
C10_CancelledRunNotExecuted ==
    (wpc # "idle" /\ w_loaded.status = "cancelled")
    => /\ wpc = "done"
       /\ final_status = "cancelled"
       /\ ~w_raised
       /\ proxmox_api = "unset"
       /\ invoked = <<>>
       /\ results = <<>>
       /\ \A c \in {"status", "overall_status", "start_time", "end_time",
                    "duration_seconds"} : run[c] = w_loaded[c]

C10_Witness ==
    /\ wpc = "done"
    /\ w_loaded.status = "cancelled"
    /\ final_status = "cancelled"
    /\ IsSet(run.end_time)
    /\ revoked # <<>>

\* C11: a delivery of the task that finds the run completed or failed is a
\* no-op: it ends at once, without moving the run to running, calling a case,
\* writing a CaseResult or changing the Run row.
C11_TerminalRunNotReexecuted ==
    [][(wpc' # "idle" /\ w_loaded'.status \in {"completed", "failed"})
         => /\ wpc' = "done"
            /\ run' = run
            /\ results' = results
            /\ invoked' = <<>>]_vars

SelectedAndEnabled(cfg) ==
    {t \in cfg.selected \ {"List Storage"} :
        t \in DestructiveTests => cfg.enable_destructive_tests}
    \cup (IF "List Storage" \in cfg.selected THEN {"List Storage on Node"} ELSE {})

\* the deletions recorded are those of the resources the run has created
CleanedUpWhatWasCreated(rs) ==
    /\ Cardinality({i \in DOMAIN rs : rs[i].test_name = "Delete Vm"})
         = Cardinality({i \in DOMAIN rs : /\ rs[i].test_name = "Create VM"
                                           /\ rs[i].status = "pass"})
    /\ Cardinality({i \in DOMAIN rs : rs[i].test_name = "Delete Snapshot"})
         = Cardinality({i \in DOMAIN rs : /\ rs[i].test_name = "Create Snapshot"
                                           /\ rs[i].status = "pass"})

\* C13: a case that fails or raises does not abort the suite: when the service
\* has returned with a fail or error among the results, every selected and
\* enabled case has been called and recorded once, the cleanup phase has run
\* if enabled, and the task ends without raising, with status completed and
\* overall_status fail.
C13_CaseFailureDoesNotAbort ==
    [][(/\ WorkerAggregate
        /\ proxmox_api = "mock"
        /\ \E i \in DOMAIN results : results[i].status \in {"fail", "error"})
         => /\ \A t \in SelectedAndEnabled(config) :
                  /\ Cardinality(ResultsNamed(t)) = 1
                  /\ t \in Range(invoked)
            /\ CleanupEnabled(config) =>
                  /\ CleanedUpWhatWasCreated(results)
                  /\ created_resources_for_cleanup = <<>>
            /\ ~w_raised'
            /\ final_status' = "success"
            /\ run'.status = "completed"
            /\ run'.overall_status = Some("fail")]_vars

C13_Witness ==
    /\ wpc = "done"
    /\ final_status = "success"
    /\ ~w_raised
    /\ Len(results) = 4
    /\ results[1].test_name = "Create VM" /\ results[1].status = "pass"
    /\ results[2].test_name = "Get VM Status" /\ results[2].status = "error"
    /\ results[3].test_name = "List Storage on Node" /\ results[3].status = "pass"
    /\ results[4].test_name = "Delete Vm" /\ results[4].status = "pass"
    /\ run.status = "completed"
    /\ run.overall_status = Some("fail")

\* C14 (as amended): in every state the persisted overall_status is null, or
\* cancelled (written by the cancel endpoint), or error (written by the
\* exception handler of a task that has ended by now), or the verdict the
\* precedence gives for the run's CaseResults.
C14_OverallStatusDerivedOrFault ==
    \/ run.overall_status \in {None, Some("cancelled")}
    \/ /\ run.overall_status = Some("error")
       /\ wpc = "done"
    \/ run.overall_status = Some(Precedence(results))

C14_Witness ==
    /\ run.overall_status = Some("error")
    /\ run.status = "failed"
    /\ results # <<>>
    /\ Precedence(results) = "pass"

\* C14 (as claimed): overall_status is null, or cancelled, or the verdict
\* derived from the run's CaseResults; nothing else writes it.
C14_OverallStatusDerived ==
    \/ run.overall_status \in {None, Some("cancelled")}
    \/ run.overall_status = Some(Precedence(results))

\* the verdict for a run without a failed case
VerdictWithoutFailure(rs) ==
    IF rs # <<>> /\ \A i \in DOMAIN rs : rs[i].status = "skipped" THEN "skipped"
    ELSE IF \E i \in DOMAIN rs : rs[i].status = "pass" THEN "pass"
    ELSE "completed"

CleanupResults(rs) == {i \in DOMAIN rs : rs[i].category = cat_cleanup}

\* C16: the cleanup phase runs exactly when the connection succeeded and
\* enable_destructive_tests and cleanup_resources are both true: then the
\* registered resources are deleted; in every other configuration no
\* deletion is called and no Cleanup CaseResult is written, whatever the
\* registry holds.
C16_CleanupIffEnabled ==
    [][/\ (CleanupPhaseStart /\ created_resources_for_cleanup # <<>>)
            => (wpc' = "cleanup_loop"
                  <=> (config.enable_destructive_tests /\ config.cleanup_resources))
       /\ (\/ wpc' = "cleanup_loop"
           \/ CleanupResults(results') # {}
           \/ Range(invoked') \cap {"Delete Vm", "Delete Snapshot"} # {})
            => /\ proxmox_api' = "mock"
               /\ config.enable_destructive_tests
               /\ config.cleanup_resources
       /\ proxmox_api' = "none" => wpc' \notin {"cleanup", "cleanup_loop"}
       /\ (/\ WorkerAggregate
           /\ proxmox_api = "mock"
           /\ config.enable_destructive_tests
           /\ config.cleanup_resources)
            => CleanedUpWhatWasCreated(results)]_vars

C16_Witness ==
    /\ wpc = "done"
    /\ proxmox_api = "mock"
    /\ config.enable_destructive_tests
    /\ config.cleanup_resources
    /\ \E i \in CleanupResults(results) : results[i].test_name = "Delete Snapshot"
    /\ created_resources_for_cleanup = <<>>

\* C17: when cleanup_created_resources_phase returns the registry is empty,
\* however the deletions ended; called on an empty registry it calls no
\* deletion, writes no CaseResult and leaves the registry empty.
C17_CleanupClearsRegistry ==
    [][/\ (wpc # "aggregate" /\ wpc' = "aggregate")
            => created_resources_for_cleanup' = <<>>
       /\ (ServiceCleanup /\ created_resources_for_cleanup = <<>>)
            => /\ wpc' = "aggregate"
               /\ results' = results
               /\ invoked' = invoked
               /\ in_flight' = None
               /\ created_resources_for_cleanup' = <<>>]_vars

C17_Witness ==
    /\ wpc = "aggregate"
    /\ created_resources_for_cleanup = <<>>
    /\ proxmox_api = "mock"
    /\ Cardinality(CleanupResults(results)) = 2
    /\ \A i \in CleanupResults(results) : results[i].status # "pass"

\* C18: the cleanup loop writes one Cleanup CaseResult per resource of the
\* registry: pass when the deletion succeeds, error when it raises, fail when
\* the kind of the resource is not known; whatever the result, the loop goes
\* on with the resources that are left.
C18_OneCleanupResultPerResource ==
    [][/\ (ServiceCleanup /\ created_resources_for_cleanup # <<>>)
            => /\ Len(cleanup_iter') = Len(created_resources_for_cleanup)
               /\ \A k \in ResourceKinds :
                     Cardinality({i \in DOMAIN cleanup_iter' :
                                     cleanup_iter'[i].type = k})
                       = Cardinality({i \in DOMAIN created_resources_for_cleanup :
                                        created_resources_for_cleanup[i].type = k})
       /\ (CleanupDelete /\ in_flight' = None)
            => LET resource == Head(cleanup_iter)
                   rec == results'[Len(results')]
               IN  /\ Len(results') = Len(results) + 1
                   /\ rec.category = "Cleanup"
                   /\ rec.test_name = DeleteName(resource)
                   /\ thunk_outcome' = "ok" => rec.status = "pass"
                   /\ thunk_outcome' = "raise" => rec.status = "error"
                   /\ (proxmox_api = "mock" /\ resource.type \notin {"vm", "snapshot"})
                        => rec.status = "fail"
                   /\ cleanup_iter' = Tail(cleanup_iter)
                   /\ Cardinality(CleanupResults(results')) + Len(cleanup_iter')
                        = Len(created_resources_for_cleanup)
                   /\ cleanup_iter' # <<>> => wpc' = "cleanup_loop"]_vars

C18_Witness ==
    /\ wpc = "aggregate"
    /\ proxmox_api = "mock"
    /\ Len(results) = 2
    /\ results[1].category = "Cleanup" /\ results[1].status = "fail"
    /\ results[2].category = "Cleanup" /\ results[2].status = "error"
    /\ invoked = <<"Delete Other", "Delete Vm">>

\* the names of the cases recorded after their test function was called
ExecutedNames(rs) ==
    LET executed == SelectSeq(rs, LAMBDA r : r.status # "skipped")
    IN  [i \in DOMAIN executed |-> executed[i].test_name]

\* C19: the cases of a run are executed one after the other: a test function
\* is called only when none is being awaited and the CaseResults of all the
\* earlier calls are committed, the CaseResults are stored in the order of
\* the calls, and every Cleanup CaseResult comes after every CaseResult of
\* the suite.
C19_SequentialExecution ==
    /\ IF in_flight = None
       THEN ExecutedNames(results) = invoked
       ELSE /\ invoked # <<>>
            /\ in_flight = Some(invoked[Len(invoked)])
            /\ ExecutedNames(results) = SubSeq(invoked, 1, Len(invoked) - 1)
    /\ \A i \in CleanupResults(results) :
          \A j \in DOMAIN results \ CleanupResults(results) : j < i

C19_Witness ==
    /\ wpc = "cleanup_loop"
    /\ in_flight = Some("Delete Snapshot")
    /\ Len(invoked) = 4
    /\ Len(results) = 3
    /\ results[3].category = "Cleanup"

\* C20: the worker is notified (revoke) once per accepted cancel that read a
\* task id on the run, with that id; a rejected cancel, and an accepted
\* cancel that read no task id, notify nobody.
C20_RevokeIffAcceptedWithHandle ==
    [][/\ CancelCommit
            => revoked' = IF IsSet(c_obj.celery_task_id)
                          THEN Append(revoked, Val(c_obj.celery_task_id))
                          ELSE revoked
       /\ (CancelLoad /\ c_pc' = "loaded") => c_obj' = run
       /\ (CancelLoad /\ c_response' = 400) => revoked' = revoked
       /\ revoked' # revoked
            => /\ c_pc = "loaded"
               /\ c_response' = 200
               /\ revoked' = Append(revoked, TaskId)]_vars

C20_Witness ==
    /\ cancels = 2
    /\ c_pc = "idle"
    /\ c_response = 200
    /\ revoked = <<TaskId>>
    /\ run.status = "cancelled"
    /\ wpc = "prepare"

\* C21: the task called with an id no Run has returns an error whose message
\* is "TestRun not found", without raising; it constructs no service and calls
\* no case, creates or changes no Run and no CaseResult, and closes its
\* session once.
C21_MissingRunIsAnError ==
    [][(Worker /\ test_run_id = UnknownRunId)
         => /\ final_status' = "error"
            /\ final_message' = Some("TestRun not found")
            /\ ~w_raised'
            /\ wpc' = "done"
            /\ proxmox_api' = "unset"
            /\ invoked' = <<>>
            /\ run' = run
            /\ results' = results
            /\ session_closes = 0
            /\ session_closes' = 1]_vars

C21_Witness ==
    /\ test_run_id = UnknownRunId
    /\ wpc = "done"
    /\ final_status = "error"
    /\ final_message = Some("TestRun not found")
    /\ session_closes = 1
    /\ results = <<>>
    /\ "Create VM" \in config.selected

\* the CaseResults of the table that an execution of the task has added
AddedBy(w) == SelectSeq(test_case_results, LAMBDA r : r.added_by = w)

\* C22: two runs executed at once share nothing but the table of CaseResults:
\* what is in a session or a registry was put there by the execution that owns
\* it, a CaseResult is committed by the execution that added it and carries
\* the id of that execution's run, and the overall_status of a finished run is
\* the verdict over the CaseResults its own execution has added, however the
\* steps of the two interleave.
C22_RunsShareOnlyTheResultStore ==
    /\ \A w \in TaskExecutions :
          /\ \A i \in DOMAIN sessions[w] : sessions[w][i].added_by = w
          /\ \A i \in DOMAIN registries[w] : registries[w][i].created_by = w
          /\ \A i \in DOMAIN tasks[w].cleanup_iter :
                tasks[w].cleanup_iter[i].created_by = w
          /\ tasks[w].pc = "done" =>
                test_runs[tasks[w].test_run_id].overall_status
                  = Some(Precedence(AddedBy(w)))
    /\ \A i \in DOMAIN test_case_results :
          /\ test_case_results[i].committed_by = test_case_results[i].added_by
          /\ test_case_results[i].test_run_id
               = tasks[test_case_results[i].added_by].test_run_id

C22_Witness ==
    /\ \A w \in TaskExecutions : tasks[w].pc = "done"
    /\ test_runs["run A"].overall_status = Some("pass")
    /\ test_runs["run B"].overall_status = Some("fail")
    /\ Len(test_case_results) = 7
    /\ test_case_results[1].added_by = "worker B"
    /\ test_case_results[2].added_by = "worker A"
    /\ test_case_results[7].added_by = "worker A"

\* C23: the task looks at a cancellation once, when it loads the run, before
\* it moves it to running: no later step returns "cancelled", and a run found
\* cancelled when the service returns has had every selected and enabled case
\* called and recorded and, if enabled, the cleanup phase run; a run cancelled
\* after the transition is executed to the end all the same.
C23_CancelObservedOnlyAtStart ==
    /\ [][/\ (Worker /\ wpc # "idle") => final_status' # "cancelled"
          /\ (WorkerLoad /\ test_run_id = RunId)
               => (final_status' = "cancelled" <=> run.status = "cancelled")
          /\ (WorkerAggregate /\ proxmox_api = "mock" /\ run.status = "cancelled")
               => /\ \A t \in SelectedAndEnabled(config) :
                        /\ Cardinality(ResultsNamed(t)) = 1
                        /\ t \in Range(invoked)
                  /\ CleanupEnabled(config) =>
                        /\ CleanedUpWhatWasCreated(results)
                        /\ created_resources_for_cleanup = <<>>
                  /\ final_status' = "success"]_vars
    /\ (wpc = "prepare" /\ run.status = "cancelled")
         ~> (wpc = "done" /\ final_status # "cancelled")

C23_Witness ==
    /\ run.status = "cancelled"
    /\ IsSet(run.start_time)
    /\ c_response = 200
    /\ revoked = <<TaskId>>
    /\ wpc = "cleanup_loop"
    /\ in_flight = Some("Delete Snapshot")
    /\ Len(results) = 3
    /\ results[2].test_name = "Create Snapshot"

\* C24: Run.status is always one of pending, queued, running, completed,
\* failed, cancelled, and overall_status one of pass, fail, skipped, error,
\* completed, cancelled or null; a running run has start_time set; and when
\* the task finishes a run it has started, the row it commits has end_time
\* not before start_time and duration_seconds the whole seconds between them,
\* which is not negative.
C24_RunRowWellFormed ==
    [][/\ run'.status \in {"pending", "queued", "running", "completed", "failed",
                          "cancelled"}
       /\ run'.overall_status \in {None} \cup
             {Some(v) : v \in {"pass", "fail", "skipped", "error", "completed",
                               "cancelled"}}
       /\ run'.status = "running" => IsSet(run'.start_time)
       /\ (Worker /\ wpc' = "done" /\ wpc \notin {"idle", "start"})
            => /\ IsSet(run'.start_time)
               /\ IsSet(run'.end_time)
               /\ IsSet(run'.duration_seconds)
               /\ Val(run'.end_time) >= Val(run'.start_time)
               /\ Val(run'.duration_seconds)
                    = IntSeconds(Val(run'.end_time) - Val(run'.start_time))
               /\ Val(run'.duration_seconds) >= 0]_vars

C24_Witness ==
    /\ wpc = "done"
    /\ run.status = "completed"
    /\ run.overall_status = Some("skipped")
    /\ run.start_time = Some(0)
    /\ run.end_time = Some(1)
    /\ run.duration_seconds = Some(0)

\* C25: on a connected service, when run_selected_tests has gone through its
\* cases and comes to the cleanup phase, a CaseResult of the connection check
\* is stored besides those of the selected and enabled cases: at least one
\* more CaseResult than there are such cases.
C25_ConnectionCheckRecorded ==
    (wpc = "cleanup" /\ proxmox_api = "mock")
    => /\ ResultsNamed("Proxmox Connection") # {}
       /\ Len(results) >= Cardinality(SelectedAndEnabled(config)) + 1

\* where an entry stands in a sequence without repetitions
Position(seq, x) == CHOOSE k \in DOMAIN seq : seq[k] = x

\* C26: of two registered resources of the same kind, the cleanup loop visits,
\* and so deletes, the one registered later first; each iteration deletes the
\* resource at the head of what is left and goes on with the rest.
C26_SameKindReverseRegistration ==
    [][/\ (ServiceCleanup /\ created_resources_for_cleanup # <<>>)
            => \A i, j \in DOMAIN created_resources_for_cleanup :
                  (/\ i < j
                   /\ created_resources_for_cleanup[i].type
                        = created_resources_for_cleanup[j].type)
                  => Position(cleanup_iter', created_resources_for_cleanup[j])
                       < Position(cleanup_iter', created_resources_for_cleanup[i])
       /\ (CleanupDelete /\ in_flight' # None)
            => /\ in_flight' = Some(DeleteName(Head(cleanup_iter)))
               /\ cleanup_iter' = cleanup_iter
       /\ (CleanupDelete /\ in_flight' = None)
            => /\ results'[Len(results')].test_name = DeleteName(Head(cleanup_iter))
               /\ cleanup_iter' = Tail(cleanup_iter)]_vars

C26_Witness ==
    /\ wpc = "cleanup_loop"
    /\ proxmox_api = "mock"
    /\ Len(created_resources_for_cleanup) = 2
    /\ created_resources_for_cleanup[1].type = "vm"
    /\ created_resources_for_cleanup[2].type = "vm"
    /\ created_resources_for_cleanup[1].id = 1
    /\ cleanup_iter = <<created_resources_for_cleanup[1]>>
    /\ in_flight = None
    /\ Len(results) = 1
    /\ results[1].test_name = "Delete Vm"

\* C27: whatever the test function returned or raised, the logs stored with
\* the CaseResult are no longer than the cap of 1500 characters and the label
\* in front of the payload.
C27_LogsBounded ==
    logs_len <= DataCap + Len(LogsLabel(thunk_outcome))

\* the create cases recorded as passed
CreatesPassed(rs) ==
    {i \in DOMAIN rs : /\ rs[i].test_name \in {"Create VM", "Create Snapshot"}
                       /\ rs[i].status = "pass"}

\* C28: the registry grows only when a create case has just been recorded as
\* passed; a create that raises and a case that is skipped register nothing;
\* so the registry never holds more entries, and the run never has more
\* Cleanup CaseResults, than create cases recorded as passed.
C28_RegistryHoldsOnlySuccessfulCreates ==
    [][/\ created_resources_for_cleanup' # created_resources_for_cleanup
            => \/ /\ Len(created_resources_for_cleanup')
                       = Len(created_resources_for_cleanup) + 1
                  /\ thunk_outcome' = "ok"
                  /\ Len(results') \in CreatesPassed(results')
                  /\ Len(results') = Len(results) + 1
               \/ wpc \in {"prepare", "cleanup", "cleanup_loop"}
       /\ Len(created_resources_for_cleanup') <= Cardinality(CreatesPassed(results'))
       /\ Cardinality(CleanupResults(results'))
            <= Cardinality(CreatesPassed(results'))]_vars

C28_Witness ==
    /\ wpc = "done"
    /\ Len(results) = 3
    /\ results[1].test_name = "Create VM" /\ results[1].status = "error"
    /\ results[2].test_name = "Create Snapshot" /\ results[2].status = "pass"
    /\ results[3].test_name = "Delete Snapshot"
    /\ created_resources_for_cleanup = <<>>

C30_NoSessionNoCall ==
    [][/\ ((ServiceExecuteCall \/ CleanupDelete) /\ proxmox_api = "none")
            => IF in_flight' # None
               THEN /\ in_flight' = Some("Proxmox Connection")
                    /\ results' = results
               ELSE LET rec == results'[Len(results')]
                    IN  /\ rec.test_name # "Proxmox Connection"
                        /\ Len(results') = Len(results) + 1
                        /\ SubSeq(results', 1, Len(results)) = results
                        /\ rec.status = "error"
                        /\ rec.message = "Proxmox API client not initialized."
                        /\ invoked' = invoked
                        /\ thunk_outcome' = "not_called"
                        /\ ~tc_returned'
       /\ proxmox_api' = "none" => Range(invoked') \subseteq {"Proxmox Connection"}]_vars

C30_Witness ==
    /\ proxmox_api = "none"
    /\ wpc = "service"
    /\ invoked = <<"Proxmox Connection">>
    /\ Len(results) = 2
    /\ results[1].test_name = "Proxmox Connection"
    /\ results[2].test_name = "Test Case"
    /\ results[2].status = "error"
    /\ thunk_outcome = "not_called"
    /\ ~tc_returned

====
